---- MODULE Spec2Model ----
(***************************************************************************)
(* Model of calculate_extra_time (src/src/main.rs): grouping of Toggl time *)
(* entries per day, per-day and cumulated extra time against a 7 hour      *)
(* working day, the CSVSheet grid and the h/min/sec decomposition.         *)
(*                                                                         *)
(* A Rust String is a sequence of one-character strings, so that string    *)
(* comparison (Vec<String>::sort, sort_by on a[0]) and i64::to_string are  *)
(* computed character by character as the program computes them.          *)
(* A HashMap is a function whose DOMAIN is its key set.                    *)
(* println! output is not part of the state.                               *)
(***************************************************************************)
EXTENDS Integers, Sequences, FiniteSets, TLC

VARIABLES
    pc,                             \* position in main
    token,                          \* opt.token.is_some()
    csv,                            \* opt.csv
    all_tasks,                      \* the parsed response: Vec<Value>
    i,                              \* index of the running for loop
    tasks_per_day,                  \* HashMap<String, Vec<i64>>
    all_days,                       \* Vec<String>
    total_work_duration_per_day,    \* HashMap<String, i64>
    cumulated_extra_time_per_day,   \* HashMap<String, i64>
    total_extra_time_worked,        \* i64
    sheet,                          \* CSVSheet
    file,                           \* results.csv
    hms,                            \* hours, minutes, seconds printed at the end
    calls                           \* the last two CSVSheet methods called (SpecSheet)

vars == <<pc, token, csv, all_tasks, i, tasks_per_day, all_days,
          total_work_duration_per_day, cumulated_extra_time_per_day,
          total_extra_time_worked, sheet, file, hms, calls>>

----------------------------------------------------------------------------
(* Bounds *)

MaxEntries == 4     \* longest response of the API
MaxT == 7300        \* largest |total_extra_time_worked| of SpecReport
MaxCols == 2        \* most columns added in SpecSheet
MaxColLen == 2      \* longest column added in SpecSheet

\* start dates of the entries (year, month, day) and their durations
Dates == { <<2024, 1, 2>>, <<2024, 1, 10>>, <<2023, 12, 31>> }
Durations == { 18000, 28800 }

\* cells of the columns added in SpecSheet
SheetCells == { <<"7">>, <<"1", "0">> }

----------------------------------------------------------------------------
(* Program constants *)

NORMAL_WORKING_TIME_PER_DAY_IN_SECONDS == 7 * 60 * 60

----------------------------------------------------------------------------
(* Strings *)

EmptyString == <<>>

DigitChar(d) ==
    CASE d = 0 -> "0" [] d = 1 -> "1" [] d = 2 -> "2" [] d = 3 -> "3"
      [] d = 4 -> "4" [] d = 5 -> "5" [] d = 6 -> "6" [] d = 7 -> "7"
      [] d = 8 -> "8" [] d = 9 -> "9"

\* byte value of the characters that occur in a compared string
Code(c) ==
    CASE c = "-" -> 45
      [] c = "0" -> 48 [] c = "1" -> 49 [] c = "2" -> 50 [] c = "3" -> 51
      [] c = "4" -> 52 [] c = "5" -> 53 [] c = "6" -> 54 [] c = "7" -> 55
      [] c = "8" -> 56 [] c = "9" -> 57

RECURSIVE Digits(_)
Digits(n) ==
    IF n < 10 THEN <<DigitChar(n)>>
    ELSE Digits(n \div 10) \o <<DigitChar(n % 10)>>

\* i64::to_string
ToString_i64(n) == IF n < 0 THEN <<"-">> \o Digits(-n) ELSE Digits(n)

RECURSIVE ZeroPad(_, _)
ZeroPad(s, width) == IF Len(s) >= width THEN s ELSE ZeroPad(<<"0">> \o s, width)

\* the format "%Y-%-m-%-d": no zero padding
FormatDateNoPad(date) ==
    Digits(date[1]) \o <<"-">> \o Digits(date[2]) \o <<"-">> \o Digits(date[3])

\* NaiveDate::format("%Y-%m-%d") for a year in 0..9999
FormatDate(date) ==
    ZeroPad(Digits(date[1]), 4) \o <<"-">> \o ZeroPad(Digits(date[2]), 2)
        \o <<"-">> \o ZeroPad(Digits(date[3]), 2)

\* String::cmp(a, b) = Less : lexicographic on bytes, a proper prefix is smaller
RECURSIVE StrLess(_, _)
StrLess(a, b) ==
    IF b = <<>> THEN FALSE
    ELSE IF a = <<>> THEN TRUE
    ELSE IF Code(Head(a)) # Code(Head(b)) THEN Code(Head(a)) < Code(Head(b))
    ELSE StrLess(Tail(a), Tail(b))

----------------------------------------------------------------------------
(* Vec and HashMap *)

EmptyMap == <<>>

ContainsKey(m, k) == k \in DOMAIN m

Insert(m, k, v) == [x \in (DOMAIN m) \cup {k} |-> IF x = k THEN v ELSE m[x]]

Remove(m, k) == [x \in (DOMAIN m) \ {k} |-> m[x]]

\* insertion of the pair x = <<key, item>> after every pair whose key is not greater
RECURSIVE InsertSorted(_, _)
InsertSorted(t, x) ==
    IF t = <<>> THEN <<x>>
    ELSE IF StrLess(x[1], Head(t)[1]) THEN <<x>> \o t
    ELSE <<Head(t)>> \o InsertSorted(Tail(t), x)

RECURSIVE SortPairs(_)
SortPairs(t) ==
    IF t = <<>> THEN <<>>
    ELSE InsertSorted(SortPairs(SubSeq(t, 1, Len(t) - 1)), t[Len(t)])

\* slice::sort / slice::sort_by : the stable sort of items by their String keys
StableSort(items, keys) ==
    LET sorted == SortPairs([k \in 1..Len(items) |-> <<keys[k], items[k]>>])
    IN  [k \in 1..Len(items) |-> sorted[k][2]]

RECURSIVE SumSeq(_)
SumSeq(s) == IF s = <<>> THEN 0 ELSE SumSeq(SubSeq(s, 1, Len(s) - 1)) + s[Len(s)]

RECURSIVE MapToString(_)
MapToString(s) ==
    IF s = <<>> THEN <<>> ELSE <<ToString_i64(Head(s))>> \o MapToString(Tail(s))

RECURSIVE Repeat(_, _)
Repeat(x, n) == IF n <= 0 THEN <<>> ELSE <<x>> \o Repeat(x, n - 1)

----------------------------------------------------------------------------
(* CSVSheet *)

TotalLabel ==
    <<"T", "o", "t", "a", "l", " ", "t", "i", "m", "e", " ", "w", "o", "r",
      "k", "e", "d", " ", "t", "h", "a", "t", " ", "d", "a", "y", " ", ":">>

ExtraLabel ==
    <<"E", "x", "t", "r", "a", " ", "t", "i", "m", "e", " ", "w", "o", "r",
      "k", "e", "d", " ", "t", "h", "a", "t", " ", "d", "a", "y", " ", ":">>

CumulatedLabel ==
    <<"C", "u", "m", "u", "l", "a", "t", "e", "d", " ", "e", "x", "t", "r",
      "a", " ", "t", "i", "m", "e", " ", "w", "o", "r", "k", "e", "d", " ", ":">>

ResultsFileName == <<"r", "e", "s", "u", "l", "t", "s", ".", "c", "s", "v">>

\* CSVSheet::new
NewSheet(file_name) ==
    [columns |-> <<>>, max_columns_length |-> 0, file_name |-> file_name]

\* CSVSheet::add_column
add_column(sh, column) == [sh EXCEPT !.columns = Append(@, column)]

\* the comparator of sort_columns indexes a[0] and b[0]
SortColumnsPanics(sh) ==
    /\ Len(sh.columns) >= 2
    /\ \E c \in 1..Len(sh.columns) : Len(sh.columns[c]) = 0

\* CSVSheet::sort_columns : the key of a column is a[0]; the comparator is
\* not called on fewer than two columns
sort_columns(sh) ==
    IF Len(sh.columns) < 2 THEN sh
    ELSE [sh EXCEPT !.columns = StableSort(@, [c \in 1..Len(@) |-> @[c][1]])]

RECURSIVE MaxLenFrom(_, _)
MaxLenFrom(columns, m) ==
    IF columns = <<>> THEN m
    ELSE MaxLenFrom(Tail(columns), IF Len(Head(columns)) > m THEN Len(Head(columns)) ELSE m)

\* CSVSheet::update_max_columns_length
update_max_columns_length(sh) ==
    [sh EXCEPT !.max_columns_length = MaxLenFrom(sh.columns, @)]

\* update_max_columns_length without the padding loop
align_columns_no_padding(sh) == update_max_columns_length(sh)

\* the padding loop 0..=len_difference
align_columns_inclusive(sh) ==
    LET s1 == update_max_columns_length(sh)
    IN  [s1 EXCEPT !.columns =
            [c \in 1..Len(s1.columns) |->
                s1.columns[c] \o
                    Repeat(EmptyString, s1.max_columns_length - Len(s1.columns[c]) + 1)]]

\* CSVSheet::align_columns
align_columns(sh) ==
    LET s1 == update_max_columns_length(sh)
    IN  [s1 EXCEPT !.columns =
            [c \in 1..Len(s1.columns) |->
                s1.columns[c] \o
                    Repeat(EmptyString, s1.max_columns_length - Len(s1.columns[c]))]]

\* the unwrap() of the two lookups of add_total_times_to_columns
AddTotalTimesPanics(sh, work, cumulated) ==
    \E c \in 1..Len(sh.columns) :
        \/ Len(sh.columns[c]) = 0
        \/ ~ ContainsKey(work, sh.columns[c][1])
        \/ ~ ContainsKey(cumulated, sh.columns[c][1])

\* the subtraction of the extra time the wrong way round
SummaryBlockNegated(column_day, work, cumulated) ==
    LET total_work_at_day == work[column_day]
        extra_time_worked_at_day ==
            NORMAL_WORKING_TIME_PER_DAY_IN_SECONDS - total_work_at_day
    IN  << EmptyString, TotalLabel, ToString_i64(total_work_at_day),
           EmptyString, ExtraLabel, ToString_i64(extra_time_worked_at_day),
           EmptyString, CumulatedLabel, ToString_i64(cumulated[column_day]) >>

SummaryBlock(column_day, work, cumulated) ==
    LET total_work_at_day == work[column_day]
        extra_time_worked_at_day ==
            total_work_at_day - NORMAL_WORKING_TIME_PER_DAY_IN_SECONDS
    IN  << EmptyString, TotalLabel, ToString_i64(total_work_at_day),
           EmptyString, ExtraLabel, ToString_i64(extra_time_worked_at_day),
           EmptyString, CumulatedLabel, ToString_i64(cumulated[column_day]) >>

\* CSVSheet::add_total_times_to_columns
add_total_times_to_columns(sh, work, cumulated) ==
    LET s1 == align_columns(sh)
        s2 == [s1 EXCEPT !.columns =
                 [c \in 1..Len(s1.columns) |->
                     s1.columns[c] \o SummaryBlock(s1.columns[c][1], work, cumulated)]]
    IN  update_max_columns_length(s2)

\* column[cell] out of bounds in write_csv_file
WriteCsvPanics(sh) ==
    \E c \in 1..Len(sh.columns) : Len(sh.columns[c]) < sh.max_columns_length

RECURSIVE WriteRow(_, _, _)
WriteRow(columns, cell, c) ==
    IF c > Len(columns) THEN <<"\n">>
    ELSE IF cell > Len(columns[c]) THEN <<>>
    ELSE columns[c][cell] \o <<";">> \o WriteRow(columns, cell, c + 1)

\* rows cell..last; the write stops at the first cell that is out of bounds
RECURSIVE WriteRows(_, _, _)
WriteRows(columns, cell, last) ==
    IF cell > last THEN <<>>
    ELSE IF \E c \in 1..Len(columns) : cell > Len(columns[c])
         THEN WriteRow(columns, cell, 1)
    ELSE WriteRow(columns, cell, 1) \o WriteRows(columns, cell + 1, last)

\* the row range 0..=max_columns_length
write_csv_file_inclusive(sh) == WriteRows(sh.columns, 1, sh.max_columns_length + 1)

\* CSVSheet::write_csv_file : the bytes written to the file
write_csv_file(sh) == WriteRows(sh.columns, 1, sh.max_columns_length)

NoFile == [created |-> FALSE, content |-> <<>>]

----------------------------------------------------------------------------
(* main *)

\* division rounding toward minus infinity
FloorDiv(a, b) == a \div b

\* i64 division truncates toward zero
TruncDiv(a, b) == IF a >= 0 THEN a \div b ELSE -((-a) \div b)

\* TimeDelta::num_hours, num_minutes, num_seconds and the decomposition
Decompose(t) ==
    LET hours == TruncDiv(t, 3600)
        minutes == TruncDiv(t, 60) - (hours * 60)
        seconds == t - (hours * 60 * 60) - (minutes * 60)
    IN  [hours |-> hours, minutes |-> minutes, seconds |-> seconds]

NoHms == [hours |-> 0, minutes |-> 0, seconds |-> 0]

\* the list of the day is replaced by the new entry alone
PushTaskOverwrite(tpd, day_as_string, worktime_in_seconds) ==
    Insert(tpd, day_as_string, <<worktime_in_seconds>>)

\* the day is removed and its list never inserted again
PushTaskNoReinsert(tpd, day_as_string, worktime_in_seconds) ==
    IF ContainsKey(tpd, day_as_string)
    THEN Remove(tpd, day_as_string)
    ELSE Insert(tpd, day_as_string, <<worktime_in_seconds>>)

\* the entry is put in front of the list of its day
PushTaskInFront(tpd, day_as_string, worktime_in_seconds) ==
    IF ContainsKey(tpd, day_as_string)
    THEN Insert(Remove(tpd, day_as_string), day_as_string,
                <<worktime_in_seconds>> \o tpd[day_as_string])
    ELSE Insert(tpd, day_as_string, <<worktime_in_seconds>>)

\* one iteration of the loop over all_tasks: the entry joins its day's list
PushTask(tpd, day_as_string, worktime_in_seconds) ==
    IF ContainsKey(tpd, day_as_string)
    THEN LET current_tasks == Append(tpd[day_as_string], worktime_in_seconds)
         IN  Insert(Remove(tpd, day_as_string), day_as_string, current_tasks)
    ELSE Insert(tpd, day_as_string, <<worktime_in_seconds>>)

\* all_days left in the order of discovery
SortDaysMissing(days) == days

\* all_days.sort()
SortDays(days) == StableSort(days, days)

Tasks == [start : Dates, duration : Durations]

RECURSIVE SeqsUpTo(_, _)
SeqsUpTo(S, n) ==
    IF n = 0 THEN { <<>> }
    ELSE LET shorter == SeqsUpTo(S, n - 1)
         IN  shorter \cup { Append(s, x) : s \in { t \in shorter : Len(t) = n - 1 }, x \in S }

InitCommon ==
    /\ i = 1
    /\ tasks_per_day = EmptyMap
    /\ all_days = <<>>
    /\ total_work_duration_per_day = EmptyMap
    /\ cumulated_extra_time_per_day = EmptyMap
    /\ sheet = NewSheet(ResultsFileName)
    /\ file = NoFile
    /\ hms = NoHms
    /\ calls = <<>>

Init ==
    /\ pc = "start"
    /\ token \in BOOLEAN
    /\ csv \in BOOLEAN
    /\ all_tasks \in SeqsUpTo(Tasks, MaxEntries)
    /\ total_extra_time_worked = 0
    /\ InitCommon

\* lines 115-168 and 241-243: the token, the sheet, the request
Start ==
    /\ pc = "start"
    /\ pc' = IF ~ token THEN "done_no_token"
             ELSE IF all_tasks = <<>> THEN "sort_days" ELSE "parse"
    /\ i' = 1
    /\ UNCHANGED <<token, csv, all_tasks, tasks_per_day, all_days,
                   total_work_duration_per_day, cumulated_extra_time_per_day,
                   total_extra_time_worked, sheet, file, hms, calls>>

\* lines 170-191: one iteration of the loop over all_tasks
ParseTask ==
    /\ pc = "parse"
    /\ LET task == all_tasks[i]
           day_as_string == FormatDate(task.start)
           worktime_in_seconds == task.duration
       IN  /\ tasks_per_day' = PushTask(tasks_per_day, day_as_string, worktime_in_seconds)
           /\ all_days' = IF ContainsKey(tasks_per_day, day_as_string)
                          THEN all_days
                          ELSE Append(all_days, day_as_string)
    /\ IF i = Len(all_tasks)
       THEN pc' = "sort_days" /\ i' = 1
       ELSE pc' = "parse" /\ i' = i + 1
    /\ UNCHANGED <<token, csv, all_tasks, total_work_duration_per_day,
                   cumulated_extra_time_per_day, total_extra_time_worked,
                   sheet, file, hms, calls>>

\* line 193
SortAllDays ==
    /\ pc = "sort_days"
    /\ all_days' = SortDays(all_days)
    /\ pc' = IF all_days = <<>> THEN "csv" ELSE "columns"
    /\ i' = 1
    /\ UNCHANGED <<token, csv, all_tasks, tasks_per_day,
                   total_work_duration_per_day, cumulated_extra_time_per_day,
                   total_extra_time_worked, sheet, file, hms, calls>>

\* lines 195-206: one iteration of the first loop over all_days
BuildColumn ==
    /\ pc = "columns"
    /\ LET day == all_days[i]
       IN  IF ~ ContainsKey(tasks_per_day, day)
           THEN /\ pc' = "panic"
                /\ UNCHANGED <<i, sheet, total_work_duration_per_day>>
           ELSE LET tasks == tasks_per_day[day]
                    column_to_add_in_sheet == <<day>> \o MapToString(tasks)
                    total_worked_that_day == SumSeq(tasks)
                IN  /\ sheet' = add_column(sheet, column_to_add_in_sheet)
                    /\ total_work_duration_per_day' =
                           Insert(total_work_duration_per_day, day, total_worked_that_day)
                    /\ IF i = Len(all_days)
                       THEN pc' = "accumulate" /\ i' = 1
                       ELSE pc' = "columns" /\ i' = i + 1
    /\ UNCHANGED <<token, csv, all_tasks, tasks_per_day, all_days,
                   cumulated_extra_time_per_day, total_extra_time_worked,
                   file, hms, calls>>

\* lines 208-218: one iteration of the second loop over all_days
Accumulate ==
    /\ pc = "accumulate"
    /\ LET day == all_days[i]
       IN  IF ~ ContainsKey(total_work_duration_per_day, day)
           THEN /\ pc' = "panic"
                /\ UNCHANGED <<i, total_extra_time_worked, cumulated_extra_time_per_day>>
           ELSE LET time_worked_this_day == total_work_duration_per_day[day]
                    extra_time_worked ==
                        time_worked_this_day - NORMAL_WORKING_TIME_PER_DAY_IN_SECONDS
                IN  /\ total_extra_time_worked' = total_extra_time_worked + extra_time_worked
                    /\ cumulated_extra_time_per_day' =
                           Insert(cumulated_extra_time_per_day, day, total_extra_time_worked')
                    /\ IF i = Len(all_days)
                       THEN pc' = "csv" /\ i' = 1
                       ELSE pc' = "accumulate" /\ i' = i + 1
    /\ UNCHANGED <<token, csv, all_tasks, tasks_per_day, all_days,
                   total_work_duration_per_day, sheet, file, hms, calls>>

\* line 221
SortColumns ==
    /\ pc = "csv"
    /\ csv
    /\ IF SortColumnsPanics(sheet)
       THEN pc' = "panic" /\ UNCHANGED sheet
       ELSE pc' = "add_total_times" /\ sheet' = sort_columns(sheet)
    /\ UNCHANGED <<token, csv, all_tasks, i, tasks_per_day, all_days,
                   total_work_duration_per_day, cumulated_extra_time_per_day,
                   total_extra_time_worked, file, hms, calls>>

\* line 222
AddTotalTimes ==
    /\ pc = "add_total_times"
    /\ IF AddTotalTimesPanics(sheet, total_work_duration_per_day,
                              cumulated_extra_time_per_day)
       THEN pc' = "panic" /\ UNCHANGED sheet
       ELSE /\ pc' = "write_csv"
            /\ sheet' = add_total_times_to_columns(sheet, total_work_duration_per_day,
                                                   cumulated_extra_time_per_day)
    /\ UNCHANGED <<token, csv, all_tasks, i, tasks_per_day, all_days,
                   total_work_duration_per_day, cumulated_extra_time_per_day,
                   total_extra_time_worked, file, hms, calls>>

\* line 223
WriteCsvFile ==
    /\ pc = "write_csv"
    /\ file' = [created |-> TRUE, content |-> write_csv_file(sheet)]
    /\ pc' = IF WriteCsvPanics(sheet) THEN "panic" ELSE "report"
    /\ UNCHANGED <<token, csv, all_tasks, i, tasks_per_day, all_days,
                   total_work_duration_per_day, cumulated_extra_time_per_day,
                   total_extra_time_worked, sheet, hms, calls>>

\* lines 226-240
Report ==
    /\ \/ pc = "report"
       \/ pc = "csv" /\ ~ csv
    /\ hms' = Decompose(total_extra_time_worked)
    /\ pc' = "done"
    /\ UNCHANGED <<token, csv, all_tasks, i, tasks_per_day, all_days,
                   total_work_duration_per_day, cumulated_extra_time_per_day,
                   total_extra_time_worked, sheet, file, calls>>

Next ==
    \/ Start
    \/ ParseTask
    \/ SortAllDays
    \/ BuildColumn
    \/ Accumulate
    \/ SortColumns
    \/ AddTotalTimes
    \/ WriteCsvFile
    \/ Report

Spec == Init /\ [][Next]_vars

----------------------------------------------------------------------------
(* The CSVSheet methods called in any order on a sheet made by new *)

InitSheet ==
    /\ pc = "sheet"
    /\ token = TRUE
    /\ csv = TRUE
    /\ all_tasks = <<>>
    /\ total_extra_time_worked = 0
    /\ InitCommon

Called(method) == calls' = IF calls = <<>> THEN <<method>> ELSE <<calls[Len(calls)], method>>

SheetFrame ==
    UNCHANGED <<token, csv, all_tasks, i, tasks_per_day, all_days,
                total_work_duration_per_day, cumulated_extra_time_per_day,
                total_extra_time_worked, file, hms>>

CallAddColumn ==
    /\ pc = "sheet"
    /\ Len(sheet.columns) < MaxCols
    /\ \E column \in SeqsUpTo(SheetCells, MaxColLen) : sheet' = add_column(sheet, column)
    /\ Called("add_column")
    /\ pc' = pc
    /\ SheetFrame

CallSortColumns ==
    /\ pc = "sheet"
    /\ IF SortColumnsPanics(sheet)
       THEN pc' = "panic" /\ UNCHANGED sheet
       ELSE pc' = pc /\ sheet' = sort_columns(sheet)
    /\ Called("sort_columns")
    /\ SheetFrame

CallUpdateMaxColumnsLength ==
    /\ pc = "sheet"
    /\ sheet' = update_max_columns_length(sheet)
    /\ Called("update_max_columns_length")
    /\ pc' = pc
    /\ SheetFrame

CallAlignColumns ==
    /\ pc = "sheet"
    /\ sheet' = align_columns(sheet)
    /\ Called("align_columns")
    /\ pc' = pc
    /\ SheetFrame

NextSheet ==
    \/ CallAddColumn
    \/ CallSortColumns
    \/ CallUpdateMaxColumnsLength
    \/ CallAlignColumns

SpecSheet == InitSheet /\ [][NextSheet]_vars

----------------------------------------------------------------------------
(* main on a response of one entry whose duration sweeps a range, so that  *)
(* total_extra_time_worked takes every value of -MaxT..MaxT                *)

InitReport ==
    /\ pc = "start"
    /\ token \in BOOLEAN
    /\ csv \in BOOLEAN
    /\ \E t \in (-MaxT)..MaxT :
          all_tasks = << [start |-> <<2024, 1, 2>>,
                          duration |-> NORMAL_WORKING_TIME_PER_DAY_IN_SECONDS + t] >>
    /\ total_extra_time_worked = 0
    /\ InitCommon

SpecReport == InitReport /\ [][Next]_vars

----------------------------------------------------------------------------
(* What the properties are stated with: the input, read independently of   *)
(* the maps the program builds                                             *)

InputDates == { all_tasks[k].start : k \in 1..Len(all_tasks) }

InputDays == { FormatDate(D) : D \in InputDates }

\* chronological order of two dates
DateLeq(D1, D2) ==
    \/ D1[1] < D2[1]
    \/ D1[1] = D2[1] /\ D1[2] < D2[2]
    \/ D1[1] = D2[1] /\ D1[2] = D2[2] /\ D1[3] <= D2[3]

\* the durations of the entries of date D, in input order
RECURSIVE DurationsOf(_, _)
DurationsOf(D, k) ==
    IF k > Len(all_tasks) THEN <<>>
    ELSE (IF all_tasks[k].start = D THEN <<all_tasks[k].duration>> ELSE <<>>)
            \o DurationsOf(D, k + 1)

RECURSIVE InputTotal(_)
InputTotal(k) == IF k = 0 THEN 0 ELSE InputTotal(k - 1) + all_tasks[k].duration

\* sum of f over the keys S of the map f
RECURSIVE SumOver(_, _)
SumOver(f, S) ==
    IF S = {} THEN 0
    ELSE LET x == CHOOSE x \in S : TRUE IN f[x] + SumOver(f, S \ {x})

\* sum of DailyTotals - 25200 over the dates of S
RECURSIVE ExtraSum(_)
ExtraSum(S) ==
    IF S = {} THEN 0
    ELSE LET D == CHOOSE D \in S : TRUE
         IN  (total_work_duration_per_day[FormatDate(D)] - 25200) + ExtraSum(S \ {D})

DigitValue(c) ==
    CASE c = "0" -> 0 [] c = "1" -> 1 [] c = "2" -> 2 [] c = "3" -> 3 [] c = "4" -> 4
      [] c = "5" -> 5 [] c = "6" -> 6 [] c = "7" -> 7 [] c = "8" -> 8 [] c = "9" -> 9

IsDigit(c) == c \in {"0", "1", "2", "3", "4", "5", "6", "7", "8", "9"}

RECURSIVE NaturalValue(_)
NaturalValue(s) ==
    IF s = <<>> THEN 0
    ELSE 10 * NaturalValue(SubSeq(s, 1, Len(s) - 1)) + DigitValue(s[Len(s)])

\* s is the decimal string of n: digits without leading zero, "-" in front iff n < 0
IsDecimalOf(s, n) ==
    LET digits == IF s # <<>> /\ s[1] = "-" THEN Tail(s) ELSE s
    IN  /\ digits # <<>>
        /\ \A k \in 1..Len(digits) : IsDigit(digits[k])
        /\ Len(digits) > 1 => digits[1] # "0"
        /\ (s[1] = "-") <=> (n < 0)
        /\ NaturalValue(digits) = IF n < 0 THEN -n ELSE n

IsPrefix(s, t) == Len(s) <= Len(t) /\ SubSeq(t, 1, Len(s)) = s

AfterAggregation == pc \in {"csv", "add_total_times", "write_csv", "report", "done"}

\* the grid is final: add_total_times_to_columns has returned
GridFinal == csv /\ pc \in {"write_csv", "report", "done"}

Running == pc \notin {"start", "done_no_token", "sheet"}

\* the entries of one day are separated by an entry of another day
Interleaved ==
    \E a, b, c \in 1..Len(all_tasks) :
        /\ a < b /\ b < c
        /\ all_tasks[a].start = all_tasks[c].start
        /\ all_tasks[a].start # all_tasks[b].start

\* a day is discovered before a day that precedes it
DiscoveredOutOfOrder ==
    \E a, b \in 1..Len(all_tasks) :
        /\ a < b
        /\ all_tasks[a].start # all_tasks[b].start
        /\ DateLeq(all_tasks[b].start, all_tasks[a].start)
        /\ \A k \in 1..(b - 1) : all_tasks[k].start # all_tasks[b].start

----------------------------------------------------------------------------
(* C1 : after aggregation CumulativeExtraTime[d] is the sum of             *)
(* DailyTotals[d'] - 25200 over the distinct days d' <= d, whatever the    *)
(* input order; for the last day it is the sum over all days and equals    *)
(* the scalar total extra time.                                            *)
CumulativeIsRunningSum ==
    AfterAggregation =>
        /\ \A D \in InputDates :
              /\ FormatDate(D) \in DOMAIN cumulated_extra_time_per_day
              /\ cumulated_extra_time_per_day[FormatDate(D)] =
                     ExtraSum({ D2 \in InputDates : DateLeq(D2, D) })
        /\ InputDates # {} =>
              LET last_day == FormatDate(CHOOSE D \in InputDates :
                                            \A D2 \in InputDates : DateLeq(D2, D))
              IN  /\ last_day = all_days[Len(all_days)]
                  /\ cumulated_extra_time_per_day[last_day] = ExtraSum(InputDates)
                  /\ cumulated_extra_time_per_day[last_day] = total_extra_time_worked

CumulativeWitness ==
    /\ pc = "done"
    /\ Cardinality(InputDates) >= 3
    /\ DiscoveredOutOfOrder

(* C2 : DailyTotals[d] is the sum of the durations of exactly the input    *)
(* entries of day d, each entry counted once, so the totals sum to the sum *)
(* of all input durations, also when the entries of a day are interleaved. *)
DailyTotalsAreInputSums ==
    AfterAggregation =>
        /\ DOMAIN total_work_duration_per_day = InputDays
        /\ \A D \in InputDates :
              total_work_duration_per_day[FormatDate(D)] = SumSeq(DurationsOf(D, 1))
        /\ SumOver(total_work_duration_per_day, DOMAIN total_work_duration_per_day)
              = InputTotal(Len(all_tasks))

DailyTotalsWitness ==
    /\ pc = "done"
    /\ Interleaved
    /\ \E k \in 1..Len(all_tasks) : all_tasks[k].duration # all_tasks[1].duration

(* C3 : once the report is built for a non-empty input, every column has   *)
(* the length of the longest pre-summary column (1 + entries of the day)   *)
(* plus 9, max_columns_length is that length, and write_csv_file reads     *)
(* every column[cell] in bounds.                                           *)
LongestDay ==
    CHOOSE n \in 0..Len(all_tasks) :
        /\ \A D \in InputDates : Len(DurationsOf(D, 1)) <= n
        /\ \E D \in InputDates : Len(DurationsOf(D, 1)) = n

GridIsRectangular ==
    /\ pc = "write_csv" => ~ WriteCsvPanics(sheet)
    /\ (GridFinal /\ all_tasks # <<>>) =>
           /\ sheet.columns # <<>>
           /\ \A c \in 1..Len(sheet.columns) :
                 Len(sheet.columns[c]) = 1 + LongestDay + 9
           /\ sheet.max_columns_length = 1 + LongestDay + 9

GridWitness ==
    /\ pc = "done"
    /\ csv
    /\ file.created
    /\ \E D1, D2 \in InputDates : Len(DurationsOf(D1, 1)) > Len(DurationsOf(D2, 1)) + 1

(* C4 : the last 9 cells of every column of the final grid are "", the     *)
(* total label, the decimal string of DailyTotals[d], "", the extra label, *)
(* the decimal string of DailyTotals[d] - 25200 (with a minus sign when    *)
(* negative), "", the cumulated label and the decimal string of            *)
(* CumulativeExtraTime[d], d being row 0 of the column; the extra time     *)
(* shown is the amount that was added to the running sum for d.            *)
SummaryBlockIsExact ==
    GridFinal =>
        \A c \in 1..Len(sheet.columns) :
            LET column == sheet.columns[c]
                n == Len(column)
                d == column[1]
                added == cumulated_extra_time_per_day[d] -
                            (IF c = 1 THEN 0
                             ELSE cumulated_extra_time_per_day[sheet.columns[c - 1][1]])
            IN  /\ n >= 10
                /\ column[n - 8] = <<>>
                /\ column[n - 7] = TotalLabel
                /\ IsDecimalOf(column[n - 6], total_work_duration_per_day[d])
                /\ column[n - 5] = <<>>
                /\ column[n - 4] = ExtraLabel
                /\ IsDecimalOf(column[n - 3], total_work_duration_per_day[d] - 25200)
                /\ IsDecimalOf(column[n - 3], added)
                /\ column[n - 2] = <<>>
                /\ column[n - 1] = CumulatedLabel
                /\ IsDecimalOf(column[n], cumulated_extra_time_per_day[d])

SummaryBlockWitness ==
    /\ pc = "done"
    /\ csv
    /\ \E c \in 1..Len(sheet.columns) :
          sheet.columns[c][Len(sheet.columns[c]) - 3] = <<"-", "7", "2", "0", "0">>
    /\ \E c \in 1..Len(sheet.columns) :
          /\ total_work_duration_per_day[sheet.columns[c][1]] > 25200
          /\ cumulated_extra_time_per_day[sheet.columns[c][1]] < 0

(* C5 : the final grid has exactly one column per distinct input day, its  *)
(* columns are in strictly ascending order of the day label of row 0, and  *)
(* that order is the order used for the cumulative sum, whatever the order *)
(* in which the days are discovered.                                       *)
ColumnsAscending ==
    GridFinal =>
        /\ Len(sheet.columns) = Cardinality(InputDays)
        /\ { sheet.columns[c][1] : c \in 1..Len(sheet.columns) } = InputDays
        /\ \A c \in 1..(Len(sheet.columns) - 1) :
              StrLess(sheet.columns[c][1], sheet.columns[c + 1][1])
        /\ Len(all_days) = Len(sheet.columns)
        /\ \A c \in 1..Len(sheet.columns) : sheet.columns[c][1] = all_days[c]

ColumnsAscendingWitness ==
    /\ pc = "done"
    /\ csv
    /\ Len(sheet.columns) >= 3
    /\ DiscoveredOutOfOrder
    /\ FormatDate(all_tasks[1].start) = sheet.columns[Len(sheet.columns)][1]

(* C6 : the key sets of the per-day buckets, DailyTotals and               *)
(* CumulativeExtraTime are the set of distinct input days, every column's  *)
(* row 0 is in that set, and no per-day lookup ever fails.                 *)
NoMissingDay ==
    /\ pc # "panic"
    /\ pc \in {"sort_days", "columns", "accumulate"} \cup
             {"csv", "add_total_times", "write_csv", "report", "done"} =>
           /\ DOMAIN tasks_per_day = InputDays
           /\ { all_days[k] : k \in 1..Len(all_days) } = InputDays
    /\ AfterAggregation =>
           /\ DOMAIN total_work_duration_per_day = DOMAIN tasks_per_day
           /\ DOMAIN cumulated_extra_time_per_day = DOMAIN tasks_per_day
           /\ \A c \in 1..Len(sheet.columns) :
                 /\ sheet.columns[c] # <<>>
                 /\ sheet.columns[c][1] \in InputDays

NoMissingDayWitness ==
    /\ pc = "done"
    /\ csv
    /\ Cardinality(DOMAIN cumulated_extra_time_per_day) = 2
    /\ \E d \in DOMAIN tasks_per_day : Len(tasks_per_day[d]) >= 2

(* C7 : after one call of align_columns every column has length            *)
(* max_columns_length, and a second call changes no column and not         *)
(* max_columns_length.                                                     *)
AlignIsIdempotent ==
    /\ [](calls # <<>> /\ calls[Len(calls)] = "align_columns" =>
             \A c \in 1..Len(sheet.columns) :
                 Len(sheet.columns[c]) = sheet.max_columns_length)
    /\ [][(calls # <<>> /\ calls[Len(calls)] = "align_columns"
               /\ calls' = <<"align_columns", "align_columns">>) => sheet' = sheet]_vars

AlignWitness ==
    /\ calls = <<"align_columns", "align_columns">>
    /\ Len(sheet.columns) = 2
    /\ sheet.max_columns_length >= 2
    /\ \A c \in 1..2 : Len(sheet.columns[c]) = sheet.max_columns_length
    /\ \E c \in 1..2 : sheet.columns[c][Len(sheet.columns[c])] = <<>>
    /\ \E c \in 1..2 : sheet.columns[c][Len(sheet.columns[c])] # <<>>

(* C8 : in the final grid the column of a day with N entries has the day   *)
(* label in row 0 and in rows 1..N the decimal strings of the durations of *)
(* those entries in input order; sorting, padding and the summary block    *)
(* only append cells or move whole columns.                                *)
EntryRowsInInputOrder ==
    /\ [](GridFinal =>
            \A D \in InputDates :
                \E c \in 1..Len(sheet.columns) :
                    LET column == sheet.columns[c]
                        entries == DurationsOf(D, 1)
                    IN  /\ column[1] = FormatDate(D)
                        /\ Len(column) > Len(entries)
                        /\ \A r \in 1..Len(entries) : IsDecimalOf(column[r + 1], entries[r]))
    /\ [][(pc \in {"csv", "add_total_times"}) =>
            /\ Len(sheet'.columns) = Len(sheet.columns)
            /\ \A c \in 1..Len(sheet.columns) :
                  \E c2 \in 1..Len(sheet'.columns) :
                      IsPrefix(sheet.columns[c], sheet'.columns[c2])]_vars

EntryRowsWitness ==
    /\ pc = "done"
    /\ csv
    /\ Interleaved
    /\ \E c \in 1..Len(sheet.columns) :
          /\ sheet.columns[c][2] = <<"1", "8", "0", "0", "0">>
          /\ sheet.columns[c][3] = <<"2", "8", "8", "0", "0">>

(* C9 : an empty input completes without error: day list and maps empty,   *)
(* total extra time 0 printed as 0h 0min 0sec, and with the report enabled *)
(* no column, max_columns_length 0 and no row written.                     *)
EmptyInputIsHarmless ==
    (Running /\ all_tasks = <<>>) =>
        /\ pc # "panic"
        /\ pc \notin {"parse", "columns", "accumulate"}
        /\ all_days = <<>>
        /\ tasks_per_day = EmptyMap
        /\ total_work_duration_per_day = EmptyMap
        /\ cumulated_extra_time_per_day = EmptyMap
        /\ total_extra_time_worked = 0
        /\ sheet.columns = <<>>
        /\ sheet.max_columns_length = 0
        /\ file.content = <<>>
        /\ pc = "done" => /\ hms = [hours |-> 0, minutes |-> 0, seconds |-> 0]
                          /\ file.created = csv

EmptyInputWitness ==
    /\ pc = "done"
    /\ all_tasks = <<>>
    /\ csv
    /\ file.created

(* C10 : for every total extra time T the printed hours, minutes, seconds  *)
(* are T / 3600, T / 60 - hours * 60 and the rest, with truncation toward  *)
(* zero; they sum to T, minutes and seconds lie strictly between -60 and   *)
(* 60, and none has the sign opposite to T.                                *)
Sign(n) == IF n > 0 THEN 1 ELSE IF n < 0 THEN -1 ELSE 0

DecompositionIsConsistent ==
    pc = "done" =>
        LET T == total_extra_time_worked
            magnitude == IF T < 0 THEN -T ELSE T
        IN  /\ hms.hours * 3600 + hms.minutes * 60 + hms.seconds = T
            /\ hms.hours = Sign(T) * (magnitude \div 3600)
            /\ hms.minutes = Sign(T) * ((magnitude \div 60) % 60)
            /\ hms.minutes > -60 /\ hms.minutes < 60
            /\ hms.seconds > -60 /\ hms.seconds < 60
            /\ Sign(hms.hours) * Sign(T) >= 0
            /\ Sign(hms.minutes) * Sign(T) >= 0
            /\ Sign(hms.seconds) * Sign(T) >= 0

DecompositionWitness ==
    /\ pc = "done"
    /\ total_extra_time_worked < -3600
    /\ hms.hours < 0
    /\ hms.minutes < 0
    /\ hms.seconds < 0

====
